---- MODULE Spec2Model ----
(***************************************************************************)
(* Model of the request-time core of the RAG compliance engine             *)
(* (src/function_app.py): SimpleRateLimiter, InputValidator, RAGEngine and *)
(* the ask_compliance HTTP handler.                                        *)
(*                                                                         *)
(* Time is counted in ticks; TicksPerSec ticks make one second, so that    *)
(* the truncation int(retry_after) of a fractional number of seconds is    *)
(* visible. Strings are sequences of one-character strings.                *)
(***************************************************************************)
EXTENDS Integers, Sequences, FiniteSets, TLC

\* ------------------------------------------------------------------ bounds
\* Clock resolution of the model (datetime has microseconds).
TicksPerSec == 2
\* SimpleRateLimiter(max_requests, window_minutes): the deployed instance is
\* (10, 1 minute); the model runs a scaled-down instance of the same class.
MaxRequests == 3
WindowSecs == 2
\* Last clock value explored.
MaxTime == 7
\* Longest history of is_allowed calls explored by SpecRL.
MaxCalls == 5
\* Number of is_allowed calls and last clock value explored by SpecConc.
MaxConcCalls == 4
MaxConcTime == 5
\* Last clock value explored by Spec.
MaxHandlerTime == 4
\* Number of audit entries and last clock value explored by SpecAudit.
MaxAuditEntries == 3
MaxAuditTime == 3
\* SpecVal: the questions explored have a trimmed length either of at most
\* MaxShortLen or within LenDelta of the upper limit, with up to MaxLeft
\* characters in front of an embedded marker.
MaxShortLen == 12
LenDelta == 1
MaxLeft == 2

\* ------------------------------------------------------ program constants
MinQuestionLen == 5
MaxQuestionLen == 1000
MinAlnum == 3
\* Worker threads of the hosting runtime that run requests concurrently.
NumThreads == 2

Window == WindowSecs * TicksPerSec

\* Values of the X-Forwarded-For header; "unknown" is the default of
\* req.headers.get('X-Forwarded-For', 'unknown').
Clients == {"unknown", "10.0.0.1"}

VARIABLES
    now,        \* datetime.now(), in ticks
    requests,   \* rate_limiter.requests: client -> list of timestamps
    hist,       \* the is_allowed calls returned so far, oldest first
    th,         \* SpecConc: per thread, its position inside is_allowed
    qin,        \* SpecVal: how the question under validation was composed
    vres,       \* SpecVal: what validate_question returned for it
    rq,         \* Spec: the request ask_compliance is handling, or handled last
    audit_log   \* SpecAudit: the AUDIT lines the logger has emitted, oldest first

rlVars == <<now, requests, hist>>
valVars == <<qin, vres>>
\* No line has been emitted.
AuditIdle == audit_log = <<>>
vars == <<now, requests, hist, th, qin, vres, rq, audit_log>>

Threads == 1..NumThreads

\* A thread outside is_allowed; no call in progress.
ThreadIdle == [pc |-> "idle", client |-> "unknown", t |-> 0, kept |-> <<>>]
ConcIdle == th = [i \in Threads |-> ThreadIdle]

\* ------------------------------------------------------------- characters
Digits == <<"0", "1", "2", "3", "4", "5", "6", "7", "8", "9">>

RECURSIVE DecStr(_)
\* str(n) of an integer: a minus sign when negative, then decimal digits.
DecStr(n) ==
    IF n < 0 THEN <<"-">> \o DecStr(-n)
    ELSE IF n < 10 THEN <<Digits[n + 1]>>
    ELSE DecStr(n \div 10) \o <<Digits[(n % 10) + 1]>>

DigitVal(ch) == CHOOSE d \in 0..9 : Digits[d + 1] = ch
IsDigit(ch) == \E d \in 0..9 : Digits[d + 1] = ch

AllDigits(s) == Len(s) > 0 /\ \A i \in 1..Len(s) : IsDigit(s[i])

RECURSIVE ParseNat(_)
ParseNat(s) ==
    IF Len(s) = 1 THEN DigitVal(s[1])
    ELSE ParseNat(SubSeq(s, 1, Len(s) - 1)) * 10 + DigitVal(s[Len(s)])

\* int(s) of a string: an optional minus sign and decimal digits; ok is
\* FALSE where int() raises ValueError.
ParseInt(s) ==
    IF AllDigits(s) THEN [ok |-> TRUE, value |-> ParseNat(s)]
    ELSE IF Len(s) > 1 /\ s[1] = "-" /\ AllDigits(Tail(s))
         THEN [ok |-> TRUE, value |-> -ParseNat(Tail(s))]
    ELSE [ok |-> FALSE, value |-> 0]

\* int(x) of the float x = n/d: truncation toward zero.
TruncDiv(n, d) == IF n >= 0 THEN n \div d ELSE -((-n) \div d)

\* ----------------------------------------------------------- rate limiter
MinOf(S) == CHOOSE x \in S : \A y \in S : x <= y
SeqRange(s) == {s[i] : i \in 1..Len(s)}

OkMsg == <<"O", "K">>
RateMsgPrefix ==
    <<"R", "a", "t", "e", " ", "l", "i", "m", "i", "t", " ",
      "e", "x", "c", "e", "d", "i", "d", "o", ".", " ",
      "T", "e", "n", "t", "e", " ",
      "n", "o", "v", "a", "m", "e", "n", "t", "e", " ", "e", "m", " ">>

\* f"Rate limit excedido. Tente novamente em {int(retry_after)}s", where
\* retry_after is a number of seconds given in ticks: int() truncates it
\* to whole seconds.
RateMsg(retryTicks) ==
    RateMsgPrefix \o DecStr(TruncDiv(retryTicks, TicksPerSec)) \o <<"s">>

\* The list comprehension of is_allowed: the timestamps still in the window.
Prune(lst, t) == SelectSeq(lst, LAMBDA r : t - r < Window)

is_allowed_admits_at_limit(reqs, c, t) ==
    LET kept == Prune(reqs[c], t) IN
    IF Len(kept) > MaxRequests
    THEN [allowed |-> FALSE,
          message |-> RateMsg(MinOf(SeqRange(kept)) + Window - t),
          requests |-> [reqs EXCEPT ![c] = kept]]
    ELSE [allowed |-> TRUE, message |-> OkMsg,
          requests |-> [reqs EXCEPT ![c] = Append(kept, t)]]

is_allowed_global_cap(reqs, c, t) ==
    LET kept == Prune(reqs[c], t)
        full == {d \in DOMAIN reqs : Len(reqs[d]) >= MaxRequests}
    IN
    IF Len(kept) >= MaxRequests \/ full # {}
    THEN [allowed |-> FALSE,
          message |-> RateMsg(IF kept = <<>> THEN Window
                              ELSE MinOf(SeqRange(kept)) + Window - t),
          requests |-> [reqs EXCEPT ![c] = kept]]
    ELSE [allowed |-> TRUE, message |-> OkMsg,
          requests |-> [reqs EXCEPT ![c] = Append(kept, t)]]

is_allowed_records_denied(reqs, c, t) ==
    LET kept == Prune(reqs[c], t) IN
    IF Len(kept) >= MaxRequests
    THEN [allowed |-> FALSE,
          message |-> RateMsg(MinOf(SeqRange(kept)) + Window - t),
          requests |-> [reqs EXCEPT ![c] = Append(Tail(kept), t)]]
    ELSE [allowed |-> TRUE, message |-> OkMsg,
          requests |-> [reqs EXCEPT ![c] = Append(kept, t)]]

\* SimpleRateLimiter.is_allowed(client_id) called when the clock reads t:
\* the returned pair and the limiter's state after the call.
is_allowed(reqs, c, t) ==
    LET kept == Prune(reqs[c], t) IN
    IF Len(kept) >= MaxRequests
    THEN [allowed |-> FALSE,
          message |-> RateMsg(MinOf(SeqRange(kept)) + Window - t),
          requests |-> [reqs EXCEPT ![c] = kept]]
    ELSE [allowed |-> TRUE, message |-> OkMsg,
          requests |-> [reqs EXCEPT ![c] = Append(kept, t)]]

\* ------------------------------------------- IEEE-754 double arithmetic
\* Python floats are binary64. A non-negative double that is zero or at
\* least 2^-7 is a whole number of units of 2^-60; the model holds that
\* number as NumLimbs limbs of LimbBits bits, least significant first, so
\* that sums, quotients and comparisons are those of the hardware: exact
\* result, then one rounding to 53 significant bits, ties to even.
LimbBits == 15
NumLimbs == 5
MantissaBits == 53
LimbBase == 2 ^ LimbBits

BigZero == [i \in 1..NumLimbs |-> 0]
BigOne == [i \in 1..NumLimbs |-> IF i = 1 THEN 1 ELSE 0]
\* 1.0 = 2^60 units.
BigUnit == [i \in 1..NumLimbs |-> IF i = 5 THEN 1 ELSE 0]

\* Bind(e, F) is F(e) with e evaluated once, before F is applied.
Bind(e, F(_)) == CHOOSE r \in {F(v) : v \in {e}} : TRUE

RECURSIVE BigAddFrom(_, _, _, _)
BigAddFrom(a, b, i, carry) ==
    IF i > NumLimbs THEN <<>>
    ELSE Bind(a[i] + b[i] + carry, LAMBDA t :
         <<t % LimbBase>> \o BigAddFrom(a, b, i + 1, t \div LimbBase))
\* a + b
BigAdd(a, b) == Bind(<<a, b>>, LAMBDA p : BigAddFrom(p[1], p[2], 1, 0))

RECURSIVE BigMulFrom(_, _, _, _)
BigMulFrom(a, k, i, carry) ==
    IF i > NumLimbs THEN <<>>
    ELSE Bind(a[i] * k + carry, LAMBDA t :
         <<t % LimbBase>> \o BigMulFrom(a, k, i + 1, t \div LimbBase))
\* a * k, for a small natural k
BigMul(a, k) == Bind(<<a, k>>, LAMBDA p : BigMulFrom(p[1], p[2], 1, 0))

RECURSIVE BigDivFrom(_, _, _, _)
\* Long division from limb i down: the quotient limbs i..1, most significant
\* first, followed by the remainder.
BigDivFrom(a, d, i, rem) ==
    IF i = 0 THEN <<rem>>
    ELSE Bind(rem * LimbBase + a[i], LAMBDA t :
         <<t \div d>> \o BigDivFrom(a, d, i - 1, t % d))
\* a divided by a small natural d: quotient q and remainder r
BigDiv(a, d) ==
    Bind(<<a, d>>, LAMBDA p :
    Bind(BigDivFrom(p[1], p[2], NumLimbs, 0), LAMBDA qr :
        [q |-> [i \in 1..NumLimbs |-> qr[NumLimbs + 1 - i]], r |-> qr[NumLimbs + 1]]))

\* a >= b
BigGe(a, b) ==
    \/ a = b
    \/ \E i \in 1..NumLimbs :
        /\ a[i] > b[i]
        /\ \A j \in (i + 1)..NumLimbs : a[j] = b[j]

RECURSIVE BitLen(_)
BitLen(n) == IF n = 0 THEN 0 ELSE Bind(n \div 2, LAMBDA half : 1 + BitLen(half))
\* Number of significant bits of a.
BigBitLen(a) ==
    Bind(a, LAMBDA x :
        IF x = BigZero THEN 0
        ELSE Bind(CHOOSE i \in 1..NumLimbs :
                      x[i] # 0 /\ \A j \in (i + 1)..NumLimbs : x[j] = 0,
                  LAMBDA top : (top - 1) * LimbBits + BitLen(x[top])))

\* The double nearest to the exact quotient s / n (round half to even).
RoundDiv(s, n) ==
    Bind(BigBitLen(BigDiv(s, n).q), LAMBDA len :
    Bind(IF len > MantissaBits THEN len - MantissaBits ELSE 0, LAMBDA shift :
    Bind(n * (2 ^ shift), LAMBDA d :
    Bind(BigDiv(s, d), LAMBDA qr :
    Bind(2 * qr.r > d \/ (2 * qr.r = d /\ qr.q[1] % 2 = 1), LAMBDA up :
        BigMul(IF up THEN BigAdd(qr.q, BigOne) ELSE qr.q, 2 ^ shift))))))

\* x + y of two floats
FloatAdd(x, y) == Bind(BigAdd(x, y), LAMBDA s : RoundDiv(s, 1))
\* x / n of a float and an int
FloatDiv(x, n) == Bind(x, LAMBDA s : RoundDiv(s, n))
\* The float denoted by the decimal h/100: a literal such as 0.75, or a
\* number of a JSON document.
Hundredths(h) == Bind(BigMul(BigUnit, h), LAMBDA s : RoundDiv(s, 100))

RECURSIVE FloatSumFrom(_, _, _)
FloatSumFrom(xs, i, acc) ==
    IF i > Len(xs) THEN acc
    ELSE Bind(FloatAdd(acc, xs[i]), LAMBDA sum : FloatSumFrom(xs, i + 1, sum))
\* sum(xs) of a list of floats: the items are added from left to right,
\* starting from the int 0.
FloatSum(xs) == Bind(xs, LAMBDA items : FloatSumFrom(items, 1, BigZero))

\* ------------------------------------------------------- input validator
LowerLetters ==
    <<"a", "b", "c", "d", "e", "f", "g", "h", "i", "j", "k", "l", "m",
      "n", "o", "p", "q", "r", "s", "t", "u", "v", "w", "x", "y", "z">>
UpperLetters ==
    <<"A", "B", "C", "D", "E", "F", "G", "H", "I", "J", "K", "L", "M",
      "N", "O", "P", "Q", "R", "S", "T", "U", "V", "W", "X", "Y", "Z">>

\* The characters str.strip() removes (those of them the model uses).
Whitespace == {" ", "\t", "\n"}

UpperSet == {UpperLetters[i] : i \in 1..26}
LowerSet == {LowerLetters[i] : i \in 1..26}
DigitSet == {Digits[i] : i \in 1..10}
ToLowerMap == [ch \in UpperSet |-> LowerLetters[CHOOSE i \in 1..26 : UpperLetters[i] = ch]]
ToUpperMap == [ch \in LowerSet |-> UpperLetters[CHOOSE i \in 1..26 : LowerLetters[i] = ch]]
\* c.isalnum()
IsAlnum(ch) == ch \in UpperSet \/ ch \in LowerSet \/ ch \in DigitSet
\* c.lower() and c.upper()
LowerCh(ch) == IF ch \in UpperSet THEN ToLowerMap[ch] ELSE ch
UpperCh(ch) == IF ch \in LowerSet THEN ToUpperMap[ch] ELSE ch
\* s.lower()
Lower(s) == [i \in 1..Len(s) |-> LowerCh(s[i])]

\* s.strip(): s without its leading and trailing whitespace.
Strip(s) ==
    IF \A i \in 1..Len(s) : s[i] \in Whitespace THEN <<>>
    ELSE SubSeq(s,
            CHOOSE i \in 1..Len(s) :
                s[i] \notin Whitespace /\ \A j \in 1..(i - 1) : s[j] \in Whitespace,
            CHOOSE i \in 1..Len(s) :
                s[i] \notin Whitespace /\ \A j \in (i + 1)..Len(s) : s[j] \in Whitespace)

\* pattern in s
Contains(s, pattern) ==
    \E i \in 1..(Len(s) - Len(pattern) + 1) :
        \A k \in 1..Len(pattern) : s[i + k - 1] = pattern[k]

\* sum(c.isalnum() for c in s)
AlnumCount(s) == Cardinality({i \in 1..Len(s) : IsAlnum(s[i])})

\* suspicious_patterns (line 98)
SuspiciousPatterns ==
    { <<"<", "s", "c", "r", "i", "p", "t">>,
      <<"j", "a", "v", "a", "s", "c", "r", "i", "p", "t", ":">>,
      <<"o", "n", "e", "r", "r", "o", "r", "=">>,
      <<"<", "?", "p", "h", "p">>,
      <<"e", "v", "a", "l", "(">> }

\* The reasons validate_question gives (accents dropped).
ErrEmpty == "Pergunta nao pode ser vazia"
ErrNotText == "Pergunta deve ser texto"
ErrShort == "Pergunta muito curta (minimo 5 caracteres)"
ErrLong == "Pergunta muito longa (maximo 1000 caracteres)"
ErrAlnum == "Pergunta deve conter pelo menos 3 caracteres alfanumericos"
ErrSuspicious == "Pergunta contem conteudo suspeito"

\* A value of the 'question' field: kind "str" with its characters in s,
\* kind "none", kind "int" with its value in v, or kind "list" with its
\* elements in s.
StrVal(s) == [kind |-> "str", s |-> s, v |-> 0]
\* not question
Falsy(q) ==
    \/ q.kind = "none"
    \/ q.kind = "str" /\ q.s = <<>>
    \/ q.kind = "int" /\ q.v = 0
    \/ q.kind = "list" /\ q.s = <<>>

Invalid(reason) == [valid |-> FALSE, sanitized |-> <<>>, error |-> reason]

validate_question_min_exclusive(q) ==
    IF Falsy(q) THEN Invalid(ErrEmpty)
    ELSE IF q.kind # "str" THEN Invalid(ErrNotText)
    ELSE LET sanitized == Strip(q.s) IN
        IF Len(sanitized) <= MinQuestionLen THEN Invalid(ErrShort)
        ELSE IF Len(sanitized) > MaxQuestionLen THEN Invalid(ErrLong)
        ELSE IF AlnumCount(sanitized) < MinAlnum THEN Invalid(ErrAlnum)
        ELSE IF \E pattern \in SuspiciousPatterns : Contains(Lower(sanitized), pattern)
             THEN Invalid(ErrSuspicious)
        ELSE [valid |-> TRUE, sanitized |-> sanitized, error |-> ""]

validate_question_case_sensitive(q) ==
    IF Falsy(q) THEN Invalid(ErrEmpty)
    ELSE IF q.kind # "str" THEN Invalid(ErrNotText)
    ELSE LET sanitized == Strip(q.s) IN
        IF Len(sanitized) < MinQuestionLen THEN Invalid(ErrShort)
        ELSE IF Len(sanitized) > MaxQuestionLen THEN Invalid(ErrLong)
        ELSE IF AlnumCount(sanitized) < MinAlnum THEN Invalid(ErrAlnum)
        ELSE IF \E pattern \in SuspiciousPatterns : Contains(sanitized, pattern)
             THEN Invalid(ErrSuspicious)
        ELSE [valid |-> TRUE, sanitized |-> sanitized, error |-> ""]

validate_question_denylist_first(q) ==
    IF Falsy(q) THEN Invalid(ErrEmpty)
    ELSE IF q.kind # "str" THEN Invalid(ErrNotText)
    ELSE LET sanitized == Strip(q.s) IN
        IF \E pattern \in SuspiciousPatterns : Contains(Lower(sanitized), pattern)
        THEN Invalid(ErrSuspicious)
        ELSE IF Len(sanitized) < MinQuestionLen THEN Invalid(ErrShort)
        ELSE IF Len(sanitized) > MaxQuestionLen THEN Invalid(ErrLong)
        ELSE IF AlnumCount(sanitized) < MinAlnum THEN Invalid(ErrAlnum)
        ELSE [valid |-> TRUE, sanitized |-> sanitized, error |-> ""]

\* InputValidator.validate_question(question): (is_valid, sanitized, error)
validate_question(q) ==
    IF Falsy(q) THEN Invalid(ErrEmpty)
    ELSE IF q.kind # "str" THEN Invalid(ErrNotText)
    ELSE LET sanitized == Strip(q.s) IN
        IF Len(sanitized) < MinQuestionLen THEN Invalid(ErrShort)
        ELSE IF Len(sanitized) > MaxQuestionLen THEN Invalid(ErrLong)
        ELSE IF AlnumCount(sanitized) < MinAlnum THEN Invalid(ErrAlnum)
        ELSE IF \E pattern \in SuspiciousPatterns : Contains(Lower(sanitized), pattern)
             THEN Invalid(ErrSuspicious)
        ELSE [valid |-> TRUE, sanitized |-> sanitized, error |-> ""]

\* ------------------------------------------------------------ RAG engine
\* self.min_relevance_score = 0.75 and the thresholds of the labels
MinRelevanceScore == Hundredths(75)
HighConfidence == Hundredths(90)
MediumConfidence == Hundredths(75)
\* self.top_k_chunks
TopK == 3

UnknownSource == <<"U", "n", "k", "n", "o", "w", "n">>
InsufficientText ==
    <<"N", "a", "o", " ", "e", "n", "c", "o", "n", "t", "r", "e",
      "i", " ", "i", "n", "f", "o", "r", "m", "a", "c", "o", "e",
      "s", " ", "c", "o", "n", "f", "i", "a", "v", "e", "i", "s",
      " ", "n", "o", "s", " ", "d", "o", "c", "u", "m", "e", "n",
      "t", "o", "s", " ", "a", "p", "r", "o", "v", "a", "d", "o",
      "s", " ", "p", "a", "r", "a", " ", "r", "e", "s", "p", "o",
      "n", "d", "e", "r", " ", "e", "s", "t", "a", " ", "p", "e",
      "r", "g", "u", "n", "t", "a", ".">>
\* What the language model returns: opaque to the engine.
LlmText == <<"l", "l", "m">>
NoText == <<>>

\* A candidate returned by the search collaborator: its source_file, its
\* page_number and its '@search.score' as the decimal score/100 of the
\* response document; `has` names the keys the candidate carries.
AllKeys == {"source_file", "page_number", "@search.score"}
Candidate(src, page, score) ==
    [source |-> src, page |-> page, score |-> score, has |-> AllKeys]

\* The ranking the search collaborator can draw from, best first; the
\* third candidate carries none of the keys (the engine reads its score as
\* 0 wherever the collaborator ranked it), the fifth a score only.
CandidateRanking ==
    << Candidate(<<"A">>, 1, 95), Candidate(<<"B">>, 2, 88),
       [source |-> <<>>, page |-> 0, score |-> 0, has |-> {}],
       Candidate(<<"A">>, 1, 85),
       [source |-> <<>>, page |-> 0, score |-> 80, has |-> {"@search.score"}],
       Candidate(<<"B">>, 1, 75), Candidate(<<"B">>, 2, 74) >>

RECURSIVE Pick(_, _)
\* The candidates of the ranking at the positions in S, in ranking order.
Pick(S, i) ==
    IF i > Len(CandidateRanking) THEN <<>>
    ELSE (IF i \in S THEN <<CandidateRanking[i]>> ELSE <<>>) \o Pick(S, i + 1)

\* The floats of the scores of the ranking.
ScoreFloat ==
    [h \in {CandidateRanking[i].score : i \in 1..Len(CandidateRanking)} |-> Hundredths(h)]

\* The result lists of search(top=3): up to TopK candidates, best first.
CandidateLists ==
    {Pick(S, 1) : S \in {T \in SUBSET (1..Len(CandidateRanking)) : Cardinality(T) <= TopK}}

\* result.get('@search.score', 0) as a float, result.get('source_file',
\* 'Unknown') and result.get('page_number', 0)
ScoreOf(cand) ==
    IF "@search.score" \in cand.has THEN ScoreFloat[cand.score] ELSE BigZero
SourceOf(cand) == IF "source_file" \in cand.has THEN cand.source ELSE UnknownSource
PageOf(cand) == IF "page_number" \in cand.has THEN cand.page ELSE 0

\* The evidence item appended for a candidate (lines 167-173); its content
\* and compliance level are carried along unread and are left out.
Evidence(cand) ==
    [source |-> SourceOf(cand), page |-> PageOf(cand),
     relevance_score |-> ScoreOf(cand)]

RECURSIVE FilterStrict(_, _)
FilterStrict(results, i) ==
    IF i > Len(results) THEN <<>>
    ELSE (IF ScoreOf(results[i]) # MinRelevanceScore
              /\ BigGe(ScoreOf(results[i]), MinRelevanceScore)
          THEN <<Evidence(results[i])>> ELSE <<>>) \o FilterStrict(results, i + 1)

RECURSIVE FilterRelevant(_, _)
\* The loop of lines 160-175 from result i on.
FilterRelevant(results, i) ==
    IF i > Len(results) THEN <<>>
    ELSE (IF BigGe(ScoreOf(results[i]), MinRelevanceScore)
          THEN <<Evidence(results[i])>> ELSE <<>>) \o FilterRelevant(results, i + 1)

search_documents_drops_threshold(embed, search, results) ==
    IF embed = "raise" THEN [raised |-> TRUE, docs |-> <<>>, embed_calls |-> 1, search_calls |-> 0]
    ELSE IF search = "raise" THEN [raised |-> TRUE, docs |-> <<>>, embed_calls |-> 1, search_calls |-> 1]
    ELSE [raised |-> FALSE, docs |-> FilterStrict(results, 1), embed_calls |-> 1, search_calls |-> 1]

search_documents_retries(embed, search, results) ==
    IF embed = "raise" THEN [raised |-> TRUE, docs |-> <<>>, embed_calls |-> 2, search_calls |-> 0]
    ELSE IF search = "raise" THEN [raised |-> TRUE, docs |-> <<>>, embed_calls |-> 1, search_calls |-> 2]
    ELSE [raised |-> FALSE, docs |-> FilterRelevant(results, 1), embed_calls |-> 1, search_calls |-> 1]

search_documents_keeps_all(embed, search, results) ==
    IF embed = "raise" THEN [raised |-> TRUE, docs |-> <<>>, embed_calls |-> 1, search_calls |-> 0]
    ELSE IF search = "raise" THEN [raised |-> TRUE, docs |-> <<>>, embed_calls |-> 1, search_calls |-> 1]
    ELSE [raised |-> FALSE, docs |-> [i \in 1..Len(results) |-> Evidence(results[i])],
          embed_calls |-> 1, search_calls |-> 1]

search_documents_reranks(embed, search, results) ==
    IF embed = "raise" THEN [raised |-> TRUE, docs |-> <<>>, embed_calls |-> 1, search_calls |-> 0]
    ELSE IF search = "raise" THEN [raised |-> TRUE, docs |-> <<>>, embed_calls |-> 1, search_calls |-> 1]
    ELSE [raised |-> FALSE,
          docs |-> LET d == FilterRelevant(results, 1) IN [i \in 1..Len(d) |-> d[Len(d) + 1 - i]],
          embed_calls |-> 1, search_calls |-> 1]

\* RAGEngine.search_documents(question), given what the embedding and the
\* search collaborator do ("ok" or "raise") and the candidates the search
\* returns: whether it raises, the evidence it returns, the calls it makes.
search_documents(embed, search, results) ==
    IF embed = "raise" THEN [raised |-> TRUE, docs |-> <<>>, embed_calls |-> 1, search_calls |-> 0]
    ELSE IF search = "raise" THEN [raised |-> TRUE, docs |-> <<>>, embed_calls |-> 1, search_calls |-> 1]
    ELSE [raised |-> FALSE, docs |-> FilterRelevant(results, 1), embed_calls |-> 1, search_calls |-> 1]

\* f"{doc['source']} (p. {doc['page']})"
Cite(doc) == doc.source \o <<" ", "(", "p", ".", " ">> \o DecStr(doc.page) \o <<")">>

RECURSIVE Distinct(_)
\* The distinct items of a list, in the order of their first occurrence.
Distinct(xs) ==
    IF xs = <<>> THEN <<>>
    ELSE LET front == Distinct(SubSeq(xs, 1, Len(xs) - 1)) IN
         IF xs[Len(xs)] \in SeqRange(front) THEN front ELSE Append(front, xs[Len(xs)])

Citations(docs) == [i \in 1..Len(docs) |-> Cite(docs[i])]

\* The orders in which list(set(...)) may hold n items.
Orders(n) == Permutations(1..n)
\* list(set(xs)): the distinct items of xs in the order `order`.
ListOfSet(xs, order) ==
    LET d == Distinct(xs) IN [i \in 1..Len(d) |-> d[order[i]]]

\* sum(doc['relevance_score'] for doc in docs) / len(docs)
AvgConfidence(docs) ==
    FloatDiv(FloatSum([i \in 1..Len(docs) |-> docs[i].relevance_score]), Len(docs))

\* Line 234
ConfidenceLevel(avg) ==
    IF BigGe(avg, HighConfidence) THEN "ALTA"
    ELSE IF BigGe(avg, MediumConfidence) THEN "MEDIA"
    ELSE "BAIXA"

NoAnswer ==
    [answer |-> NoText, sources |-> <<>>, confidence |-> "", scored |-> FALSE,
     avg |-> BigZero, documents_used |-> 0]
Raised(llmCalls, logCalls) ==
    [raised |-> TRUE, result |-> NoAnswer, llm_calls |-> llmCalls,
     log_calls |-> logCalls, audit |-> <<>>]

\* The audit entry of _log_audit (the question hash is left out: the
\* question is fixed during a request).
AuditEntry(client, docs, avg, t) ==
    [timestamp |-> t, client_ip |-> client,
     sources |-> [i \in 1..Len(docs) |-> docs[i].source], confidence |-> avg]

generate_answer_always_generates(docs, client, llm, log, order, t) ==
    IF llm = "raise" \/ docs = <<>> THEN Raised(1, 0)
    ELSE Bind(AvgConfidence(docs), LAMBDA avg :
         IF log = "raise" THEN Raised(1, 1)
         ELSE [raised |-> FALSE,
               result |-> [answer |-> LlmText,
                           sources |-> ListOfSet(Citations(docs), order),
                           confidence |-> ConfidenceLevel(avg), scored |-> TRUE,
                           avg |-> avg, documents_used |-> Len(docs)],
               llm_calls |-> 1, log_calls |-> 1,
               audit |-> <<AuditEntry(client, docs, avg, t)>>])

generate_answer_keeps_duplicates(docs, client, llm, log, order, t) ==
    IF docs = <<>>
    THEN [raised |-> FALSE,
          result |-> [answer |-> InsufficientText, sources |-> <<>>,
                      confidence |-> "BAIXA", scored |-> FALSE, avg |-> BigZero,
                      documents_used |-> 0],
          llm_calls |-> 0, log_calls |-> 0, audit |-> <<>>]
    ELSE IF llm = "raise" THEN Raised(1, 0)
    ELSE Bind(AvgConfidence(docs), LAMBDA avg :
         IF log = "raise" THEN Raised(1, 1)
         ELSE [raised |-> FALSE,
               result |-> [answer |-> LlmText,
                           sources |-> Citations(docs),
                           confidence |-> ConfidenceLevel(avg), scored |-> TRUE,
                           avg |-> avg, documents_used |-> Len(docs)],
               llm_calls |-> 1, log_calls |-> 1,
               audit |-> <<AuditEntry(client, docs, avg, t)>>])

\* RAGEngine.generate_answer(question, docs, client_ip) at clock reading t,
\* given what the language model and the audit logging do ("ok" or "raise")
\* and the order in which the set of sources is listed: whether it raises,
\* the dict it returns (with the float behind confidence_score in avg; the
\* empty-evidence dict has no score and no documents_used), the number of
\* calls of the language model and of _log_audit and the audit entries
\* written.
generate_answer(docs, client, llm, log, order, t) ==
    IF docs = <<>>
    THEN [raised |-> FALSE,
          result |-> [answer |-> InsufficientText, sources |-> <<>>,
                      confidence |-> "BAIXA", scored |-> FALSE, avg |-> BigZero,
                      documents_used |-> 0],
          llm_calls |-> 0, log_calls |-> 0, audit |-> <<>>]
    ELSE IF llm = "raise" THEN Raised(1, 0)
    ELSE Bind(AvgConfidence(docs), LAMBDA avg :
         IF log = "raise" THEN Raised(1, 1)
         ELSE [raised |-> FALSE,
               result |-> [answer |-> LlmText,
                           sources |-> ListOfSet(Citations(docs), order),
                           confidence |-> ConfidenceLevel(avg), scored |-> TRUE,
                           avg |-> avg, documents_used |-> Len(docs)],
               llm_calls |-> 1, log_calls |-> 1,
               audit |-> <<AuditEntry(client, docs, avg, t)>>])

\* ------------------------------------------------ ask_compliance handler
\* A request body: json "invalid" (get_json raises ValueError), "null" or
\* "list" (valid JSON that is no object) or "object", which carries a
\* 'question' of value q when has_q holds.
Body(json, has_q, q) == [json |-> json, has_q |-> has_q, q |-> q]
NoneVal == [kind |-> "none", s |-> <<>>, v |-> 0]

GoodQuestion == StrVal(<<" ", "s", "e", "n", "h", "a", "s", "?", " ">>)
Bodies ==
    { Body("invalid", FALSE, NoneVal), Body("null", FALSE, NoneVal),
      Body("list", FALSE, NoneVal), Body("object", FALSE, NoneVal),
      Body("object", TRUE, GoodQuestion),
      Body("object", TRUE, StrVal(<<"a", "b", "c">>)),
      Body("object", TRUE, StrVal(<<"a", "b", "c", " ", "E", "v", "a", "l", "(", "1", ")">>)),
      Body("object", TRUE, [kind |-> "int", s |-> <<>>, v |-> 7]),
      Body("object", TRUE, NoneVal) }

\* rate_message.split()[-1]: the characters after the last whitespace.
LastWord(msg) ==
    LET ws == {i \in 1..Len(msg) : msg[i] \in Whitespace} IN
    IF ws = {} THEN msg
    ELSE SubSeq(msg, (CHOOSE i \in ws : \A j \in ws : i >= j) + 1, Len(msg))
\* int(rate_message.split()[-1].replace('s', ''))
RetryAfterSeconds(msg) ==
    ParseInt(SelectSeq(LastWord(msg), LAMBDA ch : ch # "s"))

ErrRateLimit == "Rate limit excedido"
ErrJson == "JSON invalido"
ErrSearch == "Erro ao buscar documentos"
ErrGenerate == "Erro ao gerar resposta"
ErrInternal == "Erro interno do servidor"
\* The 'message' of the bodies of lines 346, 364 and 395.
MsgUnavailable == "Servico temporariamente indisponivel"
MsgGenerate == "Nao foi possivel processar sua pergunta"
MsgInternal == "Ocorreu um erro inesperado"
\* str(e) of the exceptions a request can meet: the ValueError of get_json,
\* the AttributeError of req_body.get on a body that is no object, the
\* ValueError of int() at line 310, and whatever a collaborator raises.
FaultJson == "ValueError: body is not JSON"
FaultAttribute == "AttributeError: object has no attribute 'get'"
FaultInt == "ValueError: invalid literal for int()"
FaultCollaborator == "collaborator exception text"

NoRequest ==
    [pc |-> "idle", client |-> "unknown", body |-> Body("unread", FALSE, NoneVal),
     question |-> <<>>, results |-> <<>>, docs |-> <<>>, out |-> NoAnswer,
     embed_calls |-> 0, search_calls |-> 0, llm_calls |-> 0, log_calls |-> 0,
     embed |-> "none", search |-> "none", llm |-> "none", log |-> "none",
     search_arg |-> <<>>, generate_arg |-> <<>>, audit |-> <<>>,
     status |-> 0, error |-> "", detail |-> "", fault |-> "",
     message |-> <<>>, retry_after_seconds |-> 0,
     timestamp |-> 0, rate_limit_remaining |-> 0]

\* The response is returned: status code and the 'error' of its body.
Responded(r, status, error) ==
    [r EXCEPT !.pc = "responded", !.status = status, !.error = error]
Failed_leaks_exception(r, status, error, detail, fault) ==
    [Responded(r, status, error) EXCEPT !.detail = fault, !.fault = fault]
\* An except clause caught an exception of text fault and returns the
\* response of that status with the 'error' and 'message' of its body.
Failed(r, status, error, detail, fault) ==
    [Responded(r, status, error) EXCEPT !.detail = detail, !.fault = fault]

\* ------------------------------------------ SpecVal: the validator alone
\* The questions explored: pre \o core \o post, where pre and post are
\* whitespace and core, of `total` characters, is `left` fill characters, a
\* marker (or nothing) and fill characters again. The core neither starts
\* nor ends with whitespace, so `total` is the trimmed length.
Fill(ch, n) == [i \in 1..n |-> ch]
Upper(s) == [i \in 1..Len(s) |-> UpperCh(s[i])]
\* Only the letters at odd positions in upper case.
Mixed(s) == [i \in 1..Len(s) |-> IF i % 2 = 1 THEN UpperCh(s[i]) ELSE s[i]]

Markers ==
    {<<>>} \cup SuspiciousPatterns
           \cup {Upper(m) : m \in SuspiciousPatterns}
           \cup {Mixed(m) : m \in SuspiciousPatterns}

QuestionLens ==
    (0..MaxShortLen) \cup ((MaxQuestionLen - LenDelta)..(MaxQuestionLen + LenDelta))

StrInputs ==
    {[kind |-> "str", pre |-> pre, post |-> post, left |-> left,
      marker |-> m, fill |-> f, total |-> n, v |-> 0] :
        pre \in {<<>>, <<" ", "\t">>}, post \in {<<>>, <<"\n">>},
        left \in 0..MaxLeft, m \in Markers, f \in {"a", "."},
        n \in QuestionLens}

OtherInputs ==
    {[kind |-> k[1], pre |-> <<>>, post |-> <<>>, left |-> 0,
      marker |-> <<>>, fill |-> "a", total |-> k[2], v |-> k[3]] :
        k \in {<<"none", 0, 0>>, <<"int", 0, 0>>, <<"int", 0, 7>>,
               <<"list", 0, 0>>, <<"list", 1, 0>>}}

QuestionInputs ==
    {i \in StrInputs : i.left + Len(i.marker) <= i.total} \cup OtherInputs

\* The value composed as input i says.
Question(i) ==
    IF i.kind = "str"
    THEN StrVal(i.pre \o Fill(i.fill, i.left) \o i.marker
                \o Fill(i.fill, i.total - i.left - Len(i.marker)) \o i.post)
    ELSE [kind |-> i.kind, s |-> Fill("x", i.total), v |-> i.v]

NoInput ==
    [kind |-> "none", pre |-> <<>>, post |-> <<>>, left |-> 0,
     marker |-> <<>>, fill |-> "a", total |-> 0, v |-> 0]
Pending == Invalid("pending")
ValIdle == qin = NoInput /\ vres = Pending

InitVal ==
    /\ now = 0
    /\ requests = [c \in Clients |-> <<>>]
    /\ hist = <<>>
    /\ ConcIdle
    /\ qin \in QuestionInputs
    /\ vres = Pending
    /\ rq = NoRequest
    /\ AuditIdle

\* validator.validate_question(question) is called.
Validate ==
    /\ vres = Pending
    /\ vres' = validate_question(Question(qin))
    /\ UNCHANGED <<rlVars, th, qin, rq, audit_log>>

NextVal == Validate

SpecVal == InitVal /\ [][NextVal]_vars

\* ------------------------------------------------------------------ C8
\* The question of the current state is a string and has been validated.
ValidatedStr == vres # Pending /\ qin.kind = "str"
RawLen == Len(qin.pre) + qin.total + Len(qin.post)
\* Alphanumeric characters of the composed question.
AlnumOfInput ==
    AlnumCount(qin.marker)
        + (IF qin.fill = "a" THEN qin.total - Len(qin.marker) ELSE 0)

\* C8 as stated: a trimmed length below 5 is rejected as too short, one
\* above 1000 as too long, and trimmed lengths of exactly 5 and exactly 1000
\* pass validation.
C8_LengthBoundsAsStated ==
    ValidatedStr =>
        /\ qin.total < MinQuestionLen => (~vres.valid /\ vres.error = ErrShort)
        /\ qin.total > MaxQuestionLen => (~vres.valid /\ vres.error = ErrLong)
        /\ qin.total \in {MinQuestionLen, MaxQuestionLen} => vres.valid

\* C8, amended: a non-empty question whose trimmed length is below 5 is
\* rejected as too short (the empty string is rejected as empty), one whose
\* trimmed length exceeds 1000 as too long, and a question of trimmed length
\* exactly 5 or exactly 1000 passes both length checks: it is valid exactly
\* when it holds at least 3 alphanumeric characters and no denylisted marker.
C8_LengthBounds ==
    ValidatedStr =>
        /\ RawLen = 0 => (~vres.valid /\ vres.error = ErrEmpty)
        /\ (RawLen > 0 /\ qin.total < MinQuestionLen)
            => (~vres.valid /\ vres.error = ErrShort)
        /\ qin.total > MaxQuestionLen => (~vres.valid /\ vres.error = ErrLong)
        /\ qin.total \in {MinQuestionLen, MaxQuestionLen} =>
            /\ vres.error \notin {ErrEmpty, ErrNotText, ErrShort, ErrLong}
            /\ vres.valid <=> (AlnumOfInput >= MinAlnum /\ qin.marker = <<>>)

\* A question of trimmed length exactly 1000, padded with whitespace, was
\* validated and accepted.
C8_Witness ==
    /\ ValidatedStr
    /\ qin.total = MaxQuestionLen
    /\ RawLen > MaxQuestionLen
    /\ vres.valid
    /\ Len(vres.sanitized) = MaxQuestionLen

\* ------------------------------------------------------------------ C9
\* C9 as stated: every string that contains a denylisted marker in any
\* letter case is rejected with the 'suspicious content' reason, whatever
\* surrounds the marker.
C9_DenylistAsStated ==
    (ValidatedStr /\ qin.marker # <<>>) =>
        (~vres.valid /\ vres.error = ErrSuspicious)

\* C9, amended: every string that contains a denylisted marker in any letter
\* case is rejected; the reason is 'suspicious content' when its trimmed
\* length is at most 1000 and 'too long' when it is longer.
C9_Denylist ==
    (ValidatedStr /\ qin.marker # <<>>) =>
        /\ ~vres.valid
        /\ qin.total <= MaxQuestionLen => vres.error = ErrSuspicious
        /\ qin.total > MaxQuestionLen => vres.error = ErrLong

\* A marker in mixed case, with text on both sides, was rejected as
\* suspicious.
C9_Witness ==
    /\ ValidatedStr
    /\ qin.marker \notin SuspiciousPatterns
    /\ Lower(qin.marker) \in SuspiciousPatterns
    /\ qin.left > 0
    /\ qin.total > qin.left + Len(qin.marker)
    /\ vres.error = ErrSuspicious

\* --------------------------------------------- SpecRL: the limiter alone
InitRL ==
    /\ now = 0
    /\ requests = [c \in Clients |-> <<>>]
    /\ hist = <<>>
    /\ ConcIdle
    /\ ValIdle
    /\ rq = NoRequest
    /\ AuditIdle

\* The clock advances.
Tick ==
    /\ now < MaxTime
    /\ now' = now + 1
    /\ UNCHANGED <<requests, hist, th, valVars, rq, audit_log>>

\* One sequential call rate_limiter.is_allowed(c).
Call(c) ==
    /\ Len(hist) < MaxCalls
    /\ LET r == is_allowed(requests, c, now) IN
        /\ requests' = r.requests
        /\ hist' = Append(hist, [client |-> c, time |-> now,
                                 allowed |-> r.allowed, message |-> r.message])
    /\ UNCHANGED <<now, th, valVars, rq, audit_log>>

NextRL == Tick \/ \E c \in Clients : Call(c)

SpecRL == InitRL /\ [][NextRL]_vars

\* ------------------------------------------------------------------ C1
\* The calls of client c among hist[i..j].
CallsOf(c, i, j) == {k \in i..j : hist[k].client = c}

\* Call i of client c starts a fresh window: no earlier admitted request of
\* c is still inside the window when it arrives.
FreshStart(c, i) ==
    \A k \in 1..(i - 1) :
        (hist[k].client = c /\ hist[k].allowed) => hist[i].time - hist[k].time >= Window

\* C1: sequential admission capacity. For every client key, among the
\* requests of that key that arrive within one window W after a request that
\* found no earlier request of the key in the window, exactly the first
\* MaxRequests are admitted and all later ones are denied; and a key never
\* retains more than MaxRequests timestamps.
C1_SequentialCapacity ==
    \A c \in Clients :
        /\ Len(requests[c]) <= MaxRequests
        /\ \A i \in 1..Len(hist) : \A j \in i..Len(hist) :
            (/\ hist[i].client = c
             /\ hist[j].client = c
             /\ FreshStart(c, i)
             /\ hist[j].time - hist[i].time < Window)
            => (hist[j].allowed <=> Cardinality(CallsOf(c, i, j)) <= MaxRequests)

\* A client sent more than MaxRequests requests inside one window: the last
\* one was denied and the window is full.
C1_Witness ==
    \E c \in Clients : \E i \in 1..Len(hist) : \E j \in i..Len(hist) :
        /\ hist[i].client = c
        /\ hist[j].client = c
        /\ FreshStart(c, i)
        /\ hist[j].time - hist[i].time < Window
        /\ Cardinality(CallsOf(c, i, j)) > MaxRequests
        /\ ~hist[j].allowed
        /\ Len(requests[c]) = MaxRequests

\* ----------------------- SpecConc: is_allowed run by concurrent threads
\* The hosting runtime runs ask_compliance on several worker threads against
\* the one module-level rate_limiter; is_allowed takes no lock, so a thread
\* switch can fall between any two of its statements.
ValueErrorMsg == <<"V", "a", "l", "u", "e", "E", "r", "r", "o", "r">>

\* SpecConc explores the calls of one client key.
ConcClients == {"10.0.0.1"}

InFlight == Cardinality({i \in Threads : th[i].pc # "idle"})

\* Line 45: a thread enters is_allowed(c) and reads the clock.
Begin(i, c) ==
    /\ th[i].pc = "idle"
    /\ Len(hist) + InFlight < MaxConcCalls
    /\ th' = [th EXCEPT ![i] = [pc |-> "prune", client |-> c, t |-> now, kept |-> <<>>]]
    /\ UNCHANGED <<now, requests, hist, valVars, rq, audit_log>>

\* Lines 48-51, right-hand side: the pruned copy of the list is built.
PruneRead(i) ==
    /\ th[i].pc = "prune"
    /\ th' = [th EXCEPT ![i].kept = Prune(requests[th[i].client], th[i].t),
                        ![i].pc = "store"]
    /\ UNCHANGED <<now, requests, hist, valVars, rq, audit_log>>

\* Line 48: the pruned copy is stored as the client's list.
PruneStore(i) ==
    /\ th[i].pc = "store"
    /\ requests' = [requests EXCEPT ![th[i].client] = th[i].kept]
    /\ th' = [th EXCEPT ![i].pc = "check"]
    /\ UNCHANGED <<now, hist, valVars, rq, audit_log>>

\* Line 54: the length of the client's list is compared with the limit.
CheckLimit(i) ==
    /\ th[i].pc = "check"
    /\ th' = [th EXCEPT ![i].pc =
                IF Len(requests[th[i].client]) >= MaxRequests THEN "deny" ELSE "append"]
    /\ UNCHANGED <<now, requests, hist, valVars, rq, audit_log>>

\* Lines 55-57: the denial; min() of a list another thread has emptied in
\* the meantime raises ValueError.
Deny(i) ==
    /\ th[i].pc = "deny"
    /\ LET lst == requests[th[i].client] IN
       hist' = Append(hist,
                [client |-> th[i].client, time |-> th[i].t, allowed |-> FALSE,
                 message |-> IF lst = <<>> THEN ValueErrorMsg
                             ELSE RateMsg(MinOf(SeqRange(lst)) + Window - th[i].t)])
    /\ th' = [th EXCEPT ![i] = ThreadIdle]
    /\ UNCHANGED <<now, requests, valVars, rq, audit_log>>

\* Lines 60-61: the timestamp is appended to the client's current list.
AppendNow(i) ==
    /\ th[i].pc = "append"
    /\ requests' = [requests EXCEPT ![th[i].client] = Append(@, th[i].t)]
    /\ hist' = Append(hist, [client |-> th[i].client, time |-> th[i].t,
                             allowed |-> TRUE, message |-> OkMsg])
    /\ th' = [th EXCEPT ![i] = ThreadIdle]
    /\ UNCHANGED <<now, valVars, rq, audit_log>>

NextConc ==
    \/ (now < MaxConcTime /\ Tick)
    \/ \E i \in Threads :
        \/ \E c \in ConcClients : Begin(i, c)
        \/ PruneRead(i)
        \/ PruneStore(i)
        \/ CheckLimit(i)
        \/ Deny(i)
        \/ AppendNow(i)

SpecConc == InitRL /\ [][NextConc]_vars

\* ------------------------------------------------------------------ C2
\* The admitted calls of client c whose clock reading lies in the window
\* that starts with admitted call i.
AdmittedInWindow(c, i) ==
    {k \in 1..Len(hist) :
        /\ hist[k].client = c
        /\ hist[k].allowed
        /\ hist[k].time >= hist[i].time
        /\ hist[k].time - hist[i].time < Window}

\* C2: under any interleaving of concurrent is_allowed calls, prune /
\* count-check / append act as one atomic step, so that never more than
\* MaxRequests requests of one key are admitted inside one window.
C2_AtomicAdmission ==
    \A i \in 1..Len(hist) :
        hist[i].allowed =>
            Cardinality(AdmittedInWindow(hist[i].client, i)) <= MaxRequests

\* --------------------------------------- Spec: the handler, sequentially
\* Spec follows the requests of one client key (SpecRL explores two).
HandlerClients == {"10.0.0.1"}

InitSpec ==
    /\ now = 0
    /\ requests = [c \in Clients |-> <<>>]
    /\ hist = <<>>
    /\ ConcIdle
    /\ ValIdle
    /\ rq = NoRequest
    /\ AuditIdle

\* Lines 298-314: a request of client c arrives and passes the rate limiter
\* or is answered 429; a ValueError of the int() of line 310 ends in the
\* handler of line 390.
RateLimit(c) ==
    /\ rq.pc \in {"idle", "responded"}
    /\ LET r == is_allowed(requests, c, now)
           fresh == [NoRequest EXCEPT !.client = c]
           retry == RetryAfterSeconds(r.message)
       IN
        /\ requests' = r.requests
        /\ rq' = IF r.allowed THEN [fresh EXCEPT !.pc = "parse"]
                 ELSE IF ~retry.ok
                      THEN Failed(fresh, 500, ErrInternal, MsgInternal, FaultInt)
                 ELSE [Responded(fresh, 429, ErrRateLimit) EXCEPT
                            !.message = r.message,
                            !.retry_after_seconds = retry.value]
    /\ UNCHANGED <<now, hist, th, valVars, audit_log>>

ParseValidate_passes_raw(b) ==
    /\ rq.pc = "parse"
    /\ LET q == IF b.has_q THEN b.q ELSE StrVal(<<>>)
           v == validate_question(q)
           read == [rq EXCEPT !.body = b]
       IN rq' = IF b.json = "invalid" THEN Failed(read, 400, ErrJson, "", FaultJson)
                ELSE IF b.json # "object"
                     THEN Failed(read, 500, ErrInternal, MsgInternal, FaultAttribute)
                ELSE IF ~v.valid THEN Responded(read, 400, v.error)
                ELSE [read EXCEPT !.pc = "search", !.question = q.s]
    /\ UNCHANGED <<rlVars, th, valVars, audit_log>>

ParseValidate_searches_first(b) ==
    /\ rq.pc = "parse"
    /\ LET q == IF b.has_q THEN b.q ELSE StrVal(<<>>)
           v == validate_question(q)
           read == [rq EXCEPT !.body = b, !.embed_calls = @ + 1, !.embed = "ok"]
       IN rq' = IF b.json = "invalid" THEN Failed(read, 400, ErrJson, "", FaultJson)
                ELSE IF b.json # "object"
                     THEN Failed(read, 500, ErrInternal, MsgInternal, FaultAttribute)
                ELSE IF ~v.valid THEN Responded(read, 400, v.error)
                ELSE [read EXCEPT !.pc = "search", !.question = v.sanitized]
    /\ UNCHANGED <<rlVars, th, valVars, audit_log>>

ParseValidate_refunds(b) ==
    /\ rq.pc = "parse"
    /\ LET q == IF b.has_q THEN b.q ELSE StrVal(<<>>)
           v == validate_question(q)
           read == [rq EXCEPT !.body = b]
           passed == b.json = "object" /\ v.valid
       IN /\ rq' = IF b.json = "invalid" THEN Failed(read, 400, ErrJson, "", FaultJson)
                   ELSE IF b.json # "object"
                        THEN Failed(read, 500, ErrInternal, MsgInternal, FaultAttribute)
                   ELSE IF ~v.valid THEN Responded(read, 400, v.error)
                   ELSE [read EXCEPT !.pc = "search", !.question = v.sanitized]
          /\ requests' = IF passed THEN requests
                         ELSE [requests EXCEPT ![rq.client] =
                                   SubSeq(@, 1, Len(@) - 1)]
    /\ UNCHANGED <<now, hist, th, valVars, audit_log>>

\* Lines 316-336: the body b of the request is parsed and the question
\* validated. A body that is valid JSON but no object has no .get: the
\* AttributeError is not the ValueError of line 320 and ends in the handler
\* of line 390.
ParseValidate(b) ==
    /\ rq.pc = "parse"
    /\ LET q == IF b.has_q THEN b.q ELSE StrVal(<<>>)
           v == validate_question(q)
           read == [rq EXCEPT !.body = b]
       IN rq' = IF b.json = "invalid" THEN Failed(read, 400, ErrJson, "", FaultJson)
                ELSE IF b.json # "object"
                     THEN Failed(read, 500, ErrInternal, MsgInternal, FaultAttribute)
                ELSE IF ~v.valid THEN Responded(read, 400, v.error)
                ELSE [read EXCEPT !.pc = "search", !.question = v.sanitized]
    /\ UNCHANGED <<rlVars, th, valVars, audit_log>>

Search_ignores_failure ==
    /\ rq.pc = "search"
    /\ \E embed \in {"ok", "raise"}, search \in {"ok", "raise"} :
       \E results \in IF embed = "ok" /\ search = "ok" THEN CandidateLists ELSE {<<>>} :
        \E r \in {search_documents(embed, search, results)} :
        LET called == [rq EXCEPT !.embed_calls = @ + r.embed_calls,
                                 !.search_calls = @ + r.search_calls,
                                 !.embed = embed,
                                 !.search = IF r.search_calls = 0 THEN "none" ELSE search,
                                 !.search_arg = rq.question]
        IN rq' = [called EXCEPT !.pc = "generate", !.results = results,
                                !.docs = r.docs]
    /\ UNCHANGED <<rlVars, th, valVars, audit_log>>

\* Lines 338-350: search_documents is called; if it raises, 503.
Search ==
    /\ rq.pc = "search"
    /\ \E embed \in {"ok", "raise"}, search \in {"ok", "raise"} :
       \E results \in IF embed = "ok" /\ search = "ok" THEN CandidateLists ELSE {<<>>} :
        \E r \in {search_documents(embed, search, results)} :
        LET called == [rq EXCEPT !.embed_calls = @ + r.embed_calls,
                                 !.search_calls = @ + r.search_calls,
                                 !.embed = embed,
                                 !.search = IF r.search_calls = 0 THEN "none" ELSE search,
                                 !.search_arg = rq.question]
        IN rq' = IF r.raised
                 THEN Failed(called, 503, ErrSearch, MsgUnavailable, FaultCollaborator)
                 ELSE [called EXCEPT !.pc = "generate", !.results = results,
                                     !.docs = r.docs]
    /\ UNCHANGED <<rlVars, th, valVars, audit_log>>

Generate_answers_on_failure ==
    /\ rq.pc = "generate"
    /\ \E llm \in {"ok", "raise"}, log \in {"ok", "raise"} :
       \E order \in IF llm = "ok" /\ log = "ok"
                    THEN Orders(Len(Distinct(Citations(rq.docs))))
                    ELSE {<<>>} :
        \E r \in {generate_answer(rq.docs, rq.client, llm, log, order, now)} :
        LET called == [rq EXCEPT !.llm_calls = @ + r.llm_calls,
                                 !.log_calls = @ + r.log_calls,
                                 !.llm = IF r.llm_calls = 0 THEN "none" ELSE llm,
                                 !.log = IF r.log_calls = 0 THEN "none" ELSE log,
                                 !.generate_arg = rq.question,
                                 !.audit = r.audit]
        IN rq' = [called EXCEPT !.pc = "answered", !.out = r.result]
    /\ UNCHANGED <<rlVars, th, valVars, audit_log>>

\* Lines 352-368: generate_answer is called; if it raises, 500.
Generate ==
    /\ rq.pc = "generate"
    /\ \E llm \in {"ok", "raise"}, log \in {"ok", "raise"} :
       \E order \in IF llm = "ok" /\ log = "ok"
                    THEN Orders(Len(Distinct(Citations(rq.docs))))
                    ELSE {<<>>} :
        \E r \in {generate_answer(rq.docs, rq.client, llm, log, order, now)} :
        LET called == [rq EXCEPT !.llm_calls = @ + r.llm_calls,
                                 !.log_calls = @ + r.log_calls,
                                 !.llm = IF r.llm_calls = 0 THEN "none" ELSE llm,
                                 !.log = IF r.log_calls = 0 THEN "none" ELSE log,
                                 !.generate_arg = rq.question,
                                 !.audit = r.audit]
        IN rq' = IF r.raised
                 THEN Failed(called, 500, ErrGenerate, MsgGenerate, FaultCollaborator)
                 ELSE [called EXCEPT !.pc = "answered", !.out = r.result]
    /\ UNCHANGED <<rlVars, th, valVars, audit_log>>

\* Lines 370-388: the metadata is added and the answer returned with 200.
Respond ==
    /\ rq.pc = "answered"
    /\ rq' = [Responded(rq, 200, "") EXCEPT
                !.timestamp = now,
                !.rate_limit_remaining = MaxRequests - Len(requests[rq.client])]
    /\ UNCHANGED <<rlVars, th, valVars, audit_log>>

Next ==
    \/ (now < MaxHandlerTime /\ Tick)
    \/ \E c \in HandlerClients : RateLimit(c)
    \/ \E b \in Bodies : ParseValidate(b)
    \/ Search
    \/ Generate
    \/ Respond

Spec == InitSpec /\ [][Next]_vars

\* States in which search_documents has returned its evidence.
Searched ==
    \/ rq.pc \in {"generate", "answered"}
    \/ rq.pc = "responded" /\ rq.search_calls = 1 /\ rq.status # 503
\* States in which generate_answer has returned or raised.
Generated ==
    \/ rq.pc = "answered"
    \/ rq.pc = "responded" /\ (rq.status = 200 \/ rq.error = ErrGenerate)
\* States in which generate_answer has returned its dict.
Answered ==
    \/ rq.pc = "answered"
    \/ rq.pc = "responded" /\ rq.status = 200

\* ------------------------------------------------------------------ C3
\* C3: for a request with non-empty evidence whose language-model call
\* raises, generate_answer returns an answer labelled CONTINGENCY whose text
\* holds the citation of the first evidence item, and the response is 200.
C3_GenerationFallback ==
    (rq.pc = "responded" /\ rq.llm = "raise" /\ rq.docs # <<>>) =>
        /\ rq.status = 200
        /\ rq.out.confidence = "CONTINGENCIA"
        /\ Contains(rq.out.answer, Cite(rq.docs[1]))

\* ------------------------------------------------------------------ C4
\* C4: whenever generate_answer is called with an empty evidence list, the
\* language model is not invoked during the request, the sources returned
\* are empty and the confidence label is BAIXA.
C4_EmptyEvidenceShortCircuit ==
    (Generated /\ rq.docs = <<>>) =>
        /\ rq.llm_calls = 0
        /\ Answered
        /\ rq.out.sources = <<>>
        /\ rq.out.confidence = "BAIXA"

\* A search that returned candidates, none of them relevant, was answered.
C4_Witness ==
    /\ rq.pc = "responded" /\ rq.status = 200
    /\ rq.results # <<>> /\ rq.docs = <<>>
    /\ rq.llm_calls = 0 /\ rq.out.answer = InsufficientText

\* ------------------------------------------------------------------ C5
\* The '@search.score' a candidate carries on the wire, in hundredths (0
\* when the key is missing), and the threshold 0.75 in hundredths.
WireScore(cand) == IF "@search.score" \in cand.has THEN cand.score ELSE 0
ThresholdHundredths == 75
KeptPositions(results) ==
    {i \in 1..Len(results) : WireScore(results[i]) >= ThresholdHundredths}

\* C5: the evidence returned by search_documents is exactly the candidates
\* whose score is at least 0.75, in the order of the candidates: one of
\* score 0.75 is kept, none of a smaller score appears.
C5_ThresholdFilter ==
    Searched =>
        LET kept == KeptPositions(rq.results) IN
        /\ Len(rq.docs) = Cardinality(kept)
        /\ \A i \in kept :
             rq.docs[Cardinality({j \in kept : j <= i})] = Evidence(rq.results[i])

\* The candidates held one of score 0.75 and one of score 0.74, and only
\* the first of them is in the evidence.
C5_Witness ==
    /\ Searched
    /\ \E i, j \in 1..Len(rq.results) :
        /\ WireScore(rq.results[i]) = ThresholdHundredths
        /\ WireScore(rq.results[j]) = ThresholdHundredths - 1
    /\ Len(rq.docs) = Len(rq.results) - 1
    /\ rq.docs[Len(rq.docs)].relevance_score = MinRelevanceScore

\* ------------------------------------------------------------------ C6
\* The relevance score of an evidence item in hundredths.
HundredthsOf(x) == CHOOSE h \in DOMAIN ScoreFloat : ScoreFloat[h] = x
RECURSIVE SumHundredths(_, _)
SumHundredths(docs, i) ==
    IF i > Len(docs) THEN 0
    ELSE HundredthsOf(docs[i].relevance_score) + SumHundredths(docs, i + 1)
\* The label of the arithmetic mean of the scores: mean >= 0.9 is ALTA,
\* 0.75 <= mean < 0.9 is MEDIA, anything else BAIXA.
MeanLabel(docs) ==
    LET total == SumHundredths(docs, 1) IN
    IF total >= 90 * Len(docs) THEN "ALTA"
    ELSE IF total >= 75 * Len(docs) THEN "MEDIA"
    ELSE "BAIXA"

\* C6: on the successful generation path the label is that of the
\* arithmetic mean of the relevance scores of the evidence used, with the
\* boundaries 0.9 and 0.75 resolving to the higher label.
C6_MeanLabel ==
    (Answered /\ rq.docs # <<>>) => rq.out.confidence = MeanLabel(rq.docs)

\* ------------------------------------------------------------------ C7
\* C7: the sources of a returned answer hold no duplicates, hold exactly
\* the citations "<source> (p. <page>)" of the evidence items used, one per
\* distinct (source, page), and are empty when the evidence is empty.
C7_SourcesDistinct ==
    Answered =>
        LET s == rq.out.sources IN
        /\ \A i, j \in 1..Len(s) : s[i] = s[j] => i = j
        /\ SeqRange(s) = {Cite(rq.docs[i]) : i \in 1..Len(rq.docs)}
        /\ Len(s) = Cardinality({<<rq.docs[i].source, rq.docs[i].page>> :
                                    i \in 1..Len(rq.docs)})
        /\ rq.docs = <<>> => s = <<>>

\* Three evidence items, two of them of the same source and page, were
\* answered with two sources.
C7_Witness ==
    /\ rq.pc = "responded" /\ rq.status = 200
    /\ Len(rq.docs) = 3
    /\ \E i, j \in 1..3 : i # j /\ Cite(rq.docs[i]) = Cite(rq.docs[j])
    /\ Len(rq.out.sources) = 2

\* ----------------------------------------------------------------- C10
\* C10: whenever a request is denied by the rate limiter, the
\* retry_after_seconds of the 429 body is strictly greater than 0.
C10_PositiveRetryAfter ==
    (rq.pc = "responded" /\ rq.status = 429) => rq.retry_after_seconds > 0

\* ----------------------------------------------------------------- C11
\* The retry_after_seconds the handler reports for the denied call i (line
\* 310), in seconds.
ReportedRetry(i) == RetryAfterSeconds(hist[i].message).value
\* Call j is the next call of the client of call i.
NextCallOf(i, j) ==
    /\ i < j
    /\ hist[j].client = hist[i].client
    /\ \A k \in (i + 1)..(j - 1) : hist[k].client # hist[i].client

\* C11: if a request of a client is denied at time t with reported
\* retry_after_seconds r and the client sends no request in between, its
\* request at time t + r is admitted.
C11_RecoveryAfterDelay ==
    \A i, j \in 1..Len(hist) :
        (/\ ~hist[i].allowed
         /\ NextCallOf(i, j)
         /\ hist[j].time = hist[i].time + ReportedRetry(i) * TicksPerSec)
        => hist[j].allowed

\* ----------------------------------------------------------------- C12
\* C12: every request that ends with a 200 answer has caused exactly one
\* audit record, carrying its client key, the sources and the confidence of
\* the evidence used, to be written before the response is returned.
C12_AuditCompleteness ==
    (rq.pc = "responded" /\ rq.status = 200) =>
        /\ Len(rq.audit) = 1
        /\ rq.audit[1].client_ip = rq.client
        /\ rq.audit[1].sources = [i \in 1..Len(rq.docs) |-> rq.docs[i].source]

\* ----------------------------------------------------------------- C13
\* C13: if writing the audit record raises, the failure is swallowed and
\* the request still returns the answer that was built, with status 200.
C13_AuditFailureSwallowed ==
    (rq.pc = "responded" /\ rq.log = "raise") =>
        /\ rq.status = 200
        /\ rq.out.answer = LlmText

\* ----------------------------------------------------------------- C14
\* The request was denied by the rate limiter or rejected by parsing or
\* validation.
RejectedEarly == rq.pc = "responded" /\ rq.status \in {429, 400}

\* C14: in a request answered 429 or 400 none of the embedding, search and
\* language-model collaborators is invoked.
C14_FailFast ==
    RejectedEarly =>
        /\ rq.embed_calls = 0 /\ rq.search_calls = 0 /\ rq.llm_calls = 0
        /\ rq.embed = "none" /\ rq.search = "none" /\ rq.llm = "none"

\* A question holding a denylisted marker was rejected without any call.
C14_Witness ==
    /\ RejectedEarly
    /\ rq.error = ErrSuspicious
    /\ rq.embed_calls = 0 /\ rq.search_calls = 0 /\ rq.llm_calls = 0

\* ----------------------------------------------------------------- C15
\* The embedding or the search call of the request failed.
RetrievalFailed == rq.embed = "raise" \/ rq.search = "raise"

\* C15: whenever the embedding or the search collaborator fails inside
\* search_documents, the request responds 503, the language model is never
\* invoked, no answer is built and no audit record is written.
C15_RetrievalFailureAborts ==
    RetrievalFailed =>
        /\ rq.pc = "responded" /\ rq.status = 503
        /\ rq.llm_calls = 0 /\ rq.llm = "none"
        /\ rq.out = NoAnswer
        /\ rq.audit = <<>> /\ rq.log_calls = 0

\* The embedding succeeded, the search raised, and 503 was returned.
C15_Witness ==
    /\ rq.pc = "responded" /\ rq.status = 503
    /\ rq.embed = "ok" /\ rq.search = "raise"
    /\ rq.error = ErrSearch

\* ----------------------------------------------------------------- C16
\* The 'question' the body read by the request carries ('' when missing).
QuestionOfBody == IF rq.body.has_q THEN rq.body.q ELSE StrVal(<<>>)
\* The request was admitted, its body was read, and the body carries no
\* valid textual question.
BadBody ==
    /\ rq.body.json # "unread"
    /\ \/ rq.body.json # "object"
       \/ ~validate_question(QuestionOfBody).valid

\* C16: every admitted request whose body carries no valid textual question
\* (unparseable JSON, JSON that is no object, a missing or non-text
\* 'question', a question the validator rejects) is answered 400 with an
\* 'error' reason, never 500 or 200.
C16_BadInputIs400 ==
    (rq.pc = "responded" /\ BadBody) => (rq.status = 400 /\ rq.error # "")

\* ----------------------------------------------------------------- C17
\* The texts the error bodies are built from: the literals of lines 308,
\* 322, 345-346, 363-364, 394-395 and the reasons of the validator.
GenericTexts ==
    {"", ErrRateLimit, ErrJson, ErrSearch, ErrGenerate, ErrInternal,
     MsgUnavailable, MsgGenerate, MsgInternal,
     ErrEmpty, ErrNotText, ErrShort, ErrLong, ErrAlnum, ErrSuspicious}
\* The request ended in an error response.
ErrorResponse == rq.pc = "responded" /\ rq.status \in {400, 429, 500, 503}

\* C17: a fault that is not mapped to 429, 400 or 503 results in a 500
\* response with a fixed generic message, and no body of an error response
\* holds the text of the exception that was caught.
C17_GenericError ==
    /\ (rq.pc = "responded" /\ rq.fault # "" /\ rq.status \notin {429, 400, 503}) =>
            /\ rq.status = 500
            /\ rq.error \in {ErrGenerate, ErrInternal}
            /\ rq.detail \in {MsgGenerate, MsgInternal}
    /\ ErrorResponse =>
            /\ rq.error \in GenericTexts /\ rq.detail \in GenericTexts
            /\ rq.fault # "" => rq.fault \notin {rq.error, rq.detail}
            /\ rq.status = 429 =>
                 /\ SubSeq(rq.message, 1, Len(RateMsgPrefix)) = RateMsgPrefix
                 /\ rq.message = RateMsg(rq.retry_after_seconds * TicksPerSec)

\* The AttributeError of a body that is no object was answered with the
\* generic 500.
C17_Witness ==
    /\ ErrorResponse
    /\ rq.fault = FaultAttribute
    /\ rq.status = 500 /\ rq.error = ErrInternal /\ rq.detail = MsgInternal

\* ----------------------------------------------------------------- C18
\* SpecLive: the requests of Spec at one clock reading (no step of a
\* request waits for the clock). The handler runs each request to its
\* return: a request in flight takes its next step.
HandlerStep ==
    \/ \E b \in Bodies : ParseValidate(b)
    \/ Search
    \/ Generate
    \/ Respond
NextLive ==
    \/ \E c \in HandlerClients : RateLimit(c)
    \/ HandlerStep
SpecLive == InitSpec /\ [][NextLive]_vars /\ WF_vars(HandlerStep)

QuestionOf(body) == IF body.has_q THEN body.q ELSE StrVal(<<>>)
\* A request that has just arrived: nothing of it has been read or called.
Fresh(r) ==
    /\ r.body = NoRequest.body /\ r.question = <<>>
    /\ r.embed_calls = 0 /\ r.search_calls = 0 /\ r.llm_calls = 0
    /\ r.out = NoAnswer /\ r.audit = <<>>
ReturnedWith(r, codes) == r.pc = "responded" /\ r.status \in codes

\* Every change of the request is a step to the next stage, taken only if
\* the stage before succeeded, or the one response of the request, whose
\* status is 200, 400, 429, 500 or 503; a request that has responded
\* changes no more (the next change is a fresh request).
StageOrder ==
    rq' # rq =>
        \/ /\ rq.pc \in {"idle", "responded"}
           /\ Fresh(rq')
           /\ rq'.pc = "parse" \/ ReturnedWith(rq', {429, 500})
        \/ /\ rq.pc = "parse"
           /\ \/ /\ rq'.pc = "search"
                 /\ rq'.body.json = "object"
                 /\ validate_question(QuestionOf(rq'.body)).valid
              \/ ReturnedWith(rq', {400, 500})
        \/ /\ rq.pc = "search"
           /\ \/ rq'.pc = "generate" /\ rq'.embed = "ok" /\ rq'.search = "ok"
              \/ ReturnedWith(rq', {503})
        \/ /\ rq.pc = "generate"
           /\ \/ rq'.pc = "answered" /\ rq'.llm # "raise" /\ rq'.log # "raise"
              \/ ReturnedWith(rq', {500})
        \/ /\ rq.pc = "answered"
           /\ ReturnedWith(rq', {200})

\* A request is between its rate check and its response.
Running == rq.pc \in {"parse", "search", "generate", "answered"}

\* C18: every request passes the stages rate check, validation, retrieval,
\* composition, response in this order, enters a stage only if the one
\* before succeeded, and reaches one response of status 200, 400, 429, 500
\* or 503.
C18_StateMachine ==
    /\ [][StageOrder]_vars
    /\ Running ~> (rq.pc = "responded")

\* A request went through all stages and was answered 200 with a generated
\* answer.
C18_Witness ==
    /\ rq.pc = "responded" /\ rq.status = 200
    /\ rq.embed = "ok" /\ rq.search = "ok" /\ rq.llm = "ok" /\ rq.log = "ok"
    /\ rq.search_arg # <<>> /\ rq.generate_arg # <<>>

\* ----------------------------------------------------------------- C19
\* SpecPass: one request whose body carries the question composed as qin
\* says, through the stages of the handler at one clock reading.
PassInputs ==
    {i \in QuestionInputs :
        /\ i.kind = "str" /\ i.left = 0 /\ i.fill = "a"
        /\ i.total \in {MinQuestionLen - 1, MinQuestionLen, MaxQuestionLen}}

InitPass ==
    /\ now = 0
    /\ requests = [c \in Clients |-> <<>>]
    /\ hist = <<>>
    /\ ConcIdle
    /\ qin \in PassInputs
    /\ vres = Pending
    /\ rq = NoRequest
    /\ AuditIdle

NextPass ==
    \/ (rq.pc = "idle" /\ \E c \in HandlerClients : RateLimit(c))
    \/ ParseValidate(Body("object", TRUE, Question(qin)))
    \/ Search
    \/ Generate
    \/ Respond

SpecPass == InitPass /\ [][NextPass]_vars

\* The question of qin without its leading and trailing whitespace.
TrimmedInput ==
    Fill(qin.fill, qin.left) \o qin.marker
        \o Fill(qin.fill, qin.total - qin.left - Len(qin.marker))
\* The validator has returned Valid for the question of the request.
PassedValidation ==
    \/ rq.pc \in {"search", "generate", "answered"}
    \/ rq.pc = "responded" /\ rq.status # 400 /\ rq.body.json = "object"

\* C19: whenever validate_question returns Valid, the sanitized string is
\* the input without its leading and trailing whitespace, is non-empty and
\* holds no denylisted substring in any letter case; and this string is what
\* search_documents and generate_answer receive.
C19_SanitizedQuestion ==
    /\ PassedValidation =>
        /\ rq.question = TrimmedInput
        /\ rq.question # <<>>
        /\ \A p \in SuspiciousPatterns : ~Contains(Lower(rq.question), p)
    /\ rq.embed # "none" => rq.search_arg = TrimmedInput
    /\ Generated => rq.generate_arg = TrimmedInput

\* A question of 1000 characters between whitespace was answered: search
\* and generation received the 1000 characters.
C19_Witness ==
    /\ rq.pc = "responded" /\ rq.status = 200
    /\ qin.pre # <<>> /\ qin.post # <<>>
    /\ Len(rq.body.q.s) > MaxQuestionLen
    /\ Len(rq.search_arg) = MaxQuestionLen
    /\ rq.generate_arg = rq.search_arg

\* ----------------------------------------------------------------- C20
\* The admitted calls of the client of call i that are still inside the
\* window when call i arrives: the timestamps retained at call i.
RetainedAt(i) ==
    {k \in 1..(i - 1) :
        /\ hist[k].client = hist[i].client
        /\ hist[k].allowed
        /\ hist[i].time - hist[k].time < Window}
\* oldest + W - now at the denied call i, in ticks.
TimeUntilFree(i) ==
    MinOf({hist[k].time : k \in RetainedAt(i)}) + Window - hist[i].time
\* No call of the client of call i is admitted between calls i and j.
NoAdmissionBetween(i, j) ==
    \A k \in (i + 1)..(j - 1) : hist[k].client = hist[i].client => ~hist[k].allowed

\* C20: on every denial the reported retry_after_seconds equals the time
\* until the oldest retained timestamp of the client leaves the window, is
\* non-negative, and does not grow over successive denials of the client
\* with no admission in between.
C20_RetryAfterValue ==
    \A i \in 1..Len(hist) :
        ~hist[i].allowed =>
            /\ ReportedRetry(i) * TicksPerSec = TimeUntilFree(i)
            /\ ReportedRetry(i) >= 0
            /\ \A j \in (i + 1)..Len(hist) :
                (/\ hist[j].client = hist[i].client
                 /\ ~hist[j].allowed
                 /\ hist[i].time < hist[j].time
                 /\ NoAdmissionBetween(i, j))
                => ReportedRetry(j) <= ReportedRetry(i)

\* ----------------------------------------------------------------- C21
RECURSIVE OwnWindow(_, _)
\* The window of client c after the calls of c among hist[1..k], computed by
\* a limiter that never saw another key.
OwnWindow(c, k) ==
    IF k = 0 THEN <<>>
    ELSE IF hist[k].client # c THEN OwnWindow(c, k - 1)
    ELSE Bind(OwnWindow(c, k - 1), LAMBDA own :
              is_allowed([d \in {c} |-> own], c, hist[k].time).requests[c])
\* What that limiter answers to call k.
OwnAnswer(k) ==
    Bind(OwnWindow(hist[k].client, k - 1), LAMBDA own :
         is_allowed([d \in {hist[k].client} |-> own], hist[k].client, hist[k].time))
\* Call k is the first call made with its key.
FirstOfKey(k) == \A j \in 1..(k - 1) : hist[j].client # hist[k].client

\* C21: per-key isolation. The decision and the message of every call, and
\* the stored window of every key, are those of a limiter that saw only the
\* calls made with that key, whatever calls with other keys came in between;
\* and the first call of a key is admitted.
C21_PerKeyIsolation ==
    /\ \A c \in Clients : requests[c] = OwnWindow(c, Len(hist))
    /\ \A k \in 1..Len(hist) :
        /\ hist[k].allowed = OwnAnswer(k).allowed
        /\ hist[k].message = OwnAnswer(k).message
        /\ FirstOfKey(k) => hist[k].allowed

\* One key has filled its window, another key then made its first call and
\* was admitted, and the next call of the first key was denied.
C21_Witness ==
    \E j \in 1..Len(hist) : \E k \in (j + 1)..Len(hist) :
        /\ FirstOfKey(j)
        /\ hist[j].allowed
        /\ hist[k].client # hist[j].client
        /\ ~hist[k].allowed
        /\ Cardinality({i \in 1..(j - 1) : hist[i].client = hist[k].client
                                            /\ hist[i].allowed}) = MaxRequests
        /\ Len(requests[hist[k].client]) = MaxRequests

\* ----------------------------------------------------------------- C22
\* C22: no internal retries. Within one request the embedding, the search
\* and the generative collaborator are each invoked at most once, also when
\* an invocation raises: a failed embedding is followed by no search, a
\* failed search or generation by no second attempt.
C22_NoRetries ==
    /\ rq.embed_calls <= 1
    /\ rq.search_calls <= 1
    /\ rq.llm_calls <= 1
    /\ rq.embed = "raise" => (rq.embed_calls = 1 /\ rq.search_calls = 0 /\ rq.llm_calls = 0)
    /\ rq.search = "raise" => (rq.search_calls = 1 /\ rq.llm_calls = 0)
    /\ rq.llm = "raise" => rq.llm_calls = 1

\* A request whose generation failed has been answered: each collaborator
\* was invoked once.
C22_Witness ==
    /\ rq.pc = "responded"
    /\ rq.status = 500
    /\ rq.llm = "raise"
    /\ rq.embed_calls = 1
    /\ rq.search_calls = 1
    /\ rq.llm_calls = 1

\* A request whose retrieval failed has been answered.
C22_FailedSearchWitness ==
    /\ rq.pc = "responded"
    /\ rq.status = 503
    /\ rq.search = "raise"
    /\ rq.search_calls = 1

\* ----------------------------------------------------------------- C23
\* SpecAudit: _log_audit run by the worker threads of one process. A thread
\* builds its entry, reading the clock (line 259), and hands the finished
\* line to the logger (line 267); nothing orders the two statements of one
\* thread against those of another.
AuditClients == {"10.0.0.1"}

InitAudit ==
    /\ now = 0
    /\ requests = [c \in Clients |-> <<>>]
    /\ hist = <<>>
    /\ ConcIdle
    /\ ValIdle
    /\ rq = NoRequest
    /\ AuditIdle

\* Lines 258-264: the entry is built; its timestamp is the clock reading.
AuditStamp(i, c) ==
    /\ th[i].pc = "idle"
    /\ Len(audit_log) + InFlight < MaxAuditEntries
    /\ th' = [th EXCEPT ![i] = [pc |-> "emit", client |-> c, t |-> now, kept |-> <<>>]]
    /\ UNCHANGED <<now, requests, hist, valVars, rq, audit_log>>

\* Line 267: logger.info appends the line to the log.
AuditEmit(i) ==
    /\ th[i].pc = "emit"
    /\ audit_log' = Append(audit_log, [timestamp |-> th[i].t, client_ip |-> th[i].client])
    /\ th' = [th EXCEPT ![i] = ThreadIdle]
    /\ UNCHANGED <<now, requests, hist, valVars, rq>>

NextAudit ==
    \/ (now < MaxAuditTime /\ Tick)
    \/ \E i \in Threads :
        \/ \E c \in AuditClients : AuditStamp(i, c)
        \/ AuditEmit(i)

SpecAudit == InitAudit /\ [][NextAudit]_vars

\* C23: audit timestamp monotonicity. In the order in which the entries are
\* appended to the log of one process, their timestamps never decrease,
\* also when several requests are processed concurrently.
C23_AuditMonotone ==
    \A i \in 1..Len(audit_log) : \A j \in i..Len(audit_log) :
        audit_log[i].timestamp <= audit_log[j].timestamp

\* ----------------------------------------------------------------- C24
\* The rules the input of the current state violates, each judged on its
\* own from the way the input was composed: the length and content rules
\* look at the trimmed string, of qin.total characters.
ViolatesEmpty == Falsy(Question(qin))
ViolatesText == qin.kind # "str"
ViolatesShort == qin.kind = "str" /\ qin.total < MinQuestionLen
ViolatesLong == qin.kind = "str" /\ qin.total > MaxQuestionLen
ViolatesAlnum == qin.kind = "str" /\ AlnumOfInput < MinAlnum
ViolatesDenylist == qin.kind = "str" /\ qin.marker # <<>>
ViolatedRules ==
    {r \in {"empty", "text", "short", "long", "alnum", "denylist"} :
        \/ r = "empty" /\ ViolatesEmpty
        \/ r = "text" /\ ViolatesText
        \/ r = "short" /\ ViolatesShort
        \/ r = "long" /\ ViolatesLong
        \/ r = "alnum" /\ ViolatesAlnum
        \/ r = "denylist" /\ ViolatesDenylist}
\* The reason of the first violated rule, in the order of the rules.
FirstReason ==
    IF ViolatesEmpty THEN ErrEmpty
    ELSE IF ViolatesText THEN ErrNotText
    ELSE IF ViolatesShort THEN ErrShort
    ELSE IF ViolatesLong THEN ErrLong
    ELSE IF ViolatesAlnum THEN ErrAlnum
    ELSE IF ViolatesDenylist THEN ErrSuspicious
    ELSE ""

\* C24: validation rule order. The reported reason is that of the first
\* violated rule in the order empty, not text, too short, too long,
\* insufficient alphanumeric content, suspicious content, every length and
\* content rule judged on the trimmed string; an input that violates no
\* rule is valid.
C24_RuleOrder ==
    vres # Pending =>
        /\ vres.error = FirstReason
        /\ vres.valid <=> ViolatedRules = {}

\* A string longer than the limit that holds a denylisted marker and too few
\* alphanumeric characters besides it was reported as too long.
C24_Witness ==
    /\ vres # Pending
    /\ {"long", "denylist"} \subseteq ViolatedRules
    /\ qin.fill = "."
    /\ vres.error = ErrLong

\* A string of whitespace only was reported as too short.
C24_WhitespaceWitness ==
    /\ vres # Pending
    /\ qin.kind = "str"
    /\ qin.total = 0
    /\ qin.pre # <<>>
    /\ {"short", "alnum"} \subseteq ViolatedRules
    /\ vres.error = ErrShort

\* A value that is both falsy and no string was reported as empty.
C24_FalsyWitness ==
    /\ vres # Pending
    /\ {"empty", "text"} \subseteq ViolatedRules
    /\ vres.error = ErrEmpty

\* ----------------------------------------------------------------- C25
\* The ways of placing n items, in order, at distinct positions of a list
\* of m items.
Embeddings(n, m) ==
    {f \in [1..n -> 1..m] : \A i \in 1..n : \A j \in (i + 1)..n : f[i] < f[j]}

\* C25: evidence ordering. The evidence returned by search_documents is the
\* candidates at some increasing positions of the list the search returned,
\* each converted on its own: no re-ranking, no duplicate, no invented
\* item; its size is at most the number of candidates, which is at most
\* top_k.
C25_EvidenceOrder ==
    Searched =>
        /\ Len(rq.docs) <= Len(rq.results)
        /\ Len(rq.results) <= TopK
        /\ \E f \in Embeddings(Len(rq.docs), Len(rq.results)) :
            \A i \in 1..Len(rq.docs) : rq.docs[i] = Evidence(rq.results[f[i]])

\* Three candidates were returned, the middle one was dropped, and the
\* evidence is the first and the third, in that order.
C25_Witness ==
    /\ Searched
    /\ Len(rq.results) = TopK
    /\ Len(rq.docs) = 2
    /\ rq.docs[1] = Evidence(rq.results[1])
    /\ rq.docs[2] = Evidence(rq.results[3])
    /\ rq.docs[1] # rq.docs[2]

\* ----------------------------------------------------------------- C26
\* The step is a call of is_allowed that was denied.
DeniedStep ==
    /\ Len(hist') = Len(hist) + 1
    /\ ~hist'[Len(hist')].allowed
\* The frame of a denial: the list of the caller loses its expired
\* timestamps and gains none; no other list changes.
DenialFrame ==
    DeniedStep =>
        \A c \in Clients :
            requests'[c] = IF c = hist'[Len(hist')].client
                           THEN Prune(requests[c], now) ELSE requests[c]
\* A call of the client of the denied call i that arrives when the oldest
\* timestamp retained at call i has left the window, with no admission of
\* the client in between, is admitted, however many denied calls lie in
\* between.
NotPostponed ==
    \A i \in 1..Len(hist) : \A j \in (i + 1)..Len(hist) :
        (/\ ~hist[i].allowed
         /\ hist[j].client = hist[i].client
         /\ NoAdmissionBetween(i, j)
         /\ hist[j].time - hist[i].time >= TimeUntilFree(i))
        => hist[j].allowed

\* C26: a denied admission records nothing. After a denial the client's
\* window is its window before the call minus the expired timestamps, so
\* requests repeated while denied never postpone the moment at which the
\* client is admitted again.
C26_DenialRecordsNothing == [][DenialFrame]_vars /\ []NotPostponed

\* A client was denied and denied again at a later clock reading, and its
\* window holds the timestamps of its admitted requests and no other.
C26_Witness ==
    \E i \in 1..Len(hist) : \E j \in (i + 1)..Len(hist) :
        /\ ~hist[i].allowed
        /\ ~hist[j].allowed
        /\ hist[j].client = hist[i].client
        /\ hist[j].time > hist[i].time
        /\ Len(requests[hist[i].client]) = MaxRequests
        /\ SeqRange(requests[hist[i].client]) =
              {hist[k].time : k \in {n \in 1..Len(hist) :
                    hist[n].client = hist[i].client /\ hist[n].allowed}}

\* A client was denied and its next request, sent at the very moment its
\* oldest timestamp left the window, was admitted.
C26_ReadmittedWitness ==
    \E i \in 1..Len(hist) : \E k \in (i + 1)..Len(hist) :
        /\ ~hist[i].allowed
        /\ hist[k].client = hist[i].client
        /\ hist[k].allowed
        /\ NoAdmissionBetween(i, k)
        /\ hist[k].time - hist[i].time = TimeUntilFree(i)

\* ----------------------------------------------------------------- C27
\* SpecCharge: the requests of one client, every one of them with a body
\* that is no JSON or a question the validator rejects.
InvalidBodies ==
    {b \in Bodies :
        \/ b.json = "invalid"
        \/ b.json = "object" /\ ~validate_question(QuestionOf(b)).valid}

NextCharge ==
    \/ (now < MaxHandlerTime /\ Tick)
    \/ \E c \in HandlerClients : RateLimit(c)
    \/ \E b \in InvalidBodies : ParseValidate(b)

SpecCharge == InitSpec /\ [][NextCharge]_vars

\* No request is being handled: the next step of the handler is an arrival.
Waiting == rq.pc \in {"idle", "responded"}
\* What a step does to the window of the client of the request: an arriving
\* request is admitted exactly when fewer than MaxRequests timestamps are
\* still in the window, and then its own timestamp is added before anything
\* else is looked at; a full window answers 429; no later step of the
\* request, whatever it answers, touches any window.
ChargeStep ==
    LET c == rq'.client
        kept == Prune(requests[c], now)
    IN
    /\ (Waiting /\ now' = now) =>
        \/ /\ Len(kept) < MaxRequests
           /\ rq'.pc = "parse"
           /\ requests' = [requests EXCEPT ![c] = Append(kept, now)]
        \/ /\ Len(kept) >= MaxRequests
           /\ rq'.pc = "responded"
           /\ rq'.status = 429
           /\ requests' = [requests EXCEPT ![c] = kept]
    /\ ~Waiting => requests' = requests
\* The request answered last was admitted and answered 400.
Answered400 == rq.pc = "responded" /\ rq.status = 400

ScoredAnswer == Answered /\ rq.out.scored

\* C28: with the threshold 0.75 and scores between 0 and 1, every answer of
\* the generation path has a confidence score between 0.75 and 1, so its
\* label is ALTA or MEDIA; an answer labelled BAIXA comes from the
\* empty-evidence branch.
C28_ConfidenceFloor ==
    /\ ScoredAnswer =>
        /\ BigGe(rq.out.avg, MinRelevanceScore)
        /\ BigGe(BigUnit, rq.out.avg)
        /\ rq.out.confidence \in {"ALTA", "MEDIA"}
    /\ (Answered /\ rq.out.confidence = "BAIXA") =>
        /\ rq.docs = <<>>
        /\ ~rq.out.scored
        /\ rq.llm_calls = 0

\* An answer was generated from evidence whose scores are all exactly 0.75:
\* its confidence score is 0.75 and its label MEDIA.
C28_Witness ==
    /\ ScoredAnswer
    /\ rq.docs # <<>>
    /\ \A i \in 1..Len(rq.docs) : rq.docs[i].relevance_score = MinRelevanceScore
    /\ rq.out.avg = MinRelevanceScore
    /\ rq.out.confidence = "MEDIA"

\* ----------------------------------------------------------------- C29
\* How often timestamp t occurs in list lst.
Occurrences(lst, t) == Cardinality({i \in 1..Len(lst) : lst[i] = t})
\* The admitted calls of client c that read the clock at t.
AdmittedAt(c, t) ==
    {k \in 1..Len(hist) : hist[k].client = c /\ hist[k].allowed /\ hist[k].time = t}

\* C29: no lost admission records under concurrency. Whatever the
\* interleaving of concurrent is_allowed calls, the timestamp of every
\* admitted request stays in the list of its client for as long as it is
\* younger than the window: no call's prune-and-store drops a timestamp
\* that another call appended in the meantime.
C29_NoLostAdmission ==
    \A k \in 1..Len(hist) :
        (hist[k].allowed /\ now - hist[k].time < Window) =>
            Occurrences(requests[hist[k].client], hist[k].time)
                >= Cardinality(AdmittedAt(hist[k].client, hist[k].time))

====
